---------------------------- MODULE Spec2Model ----------------------------
(***************************************************************************)
(* gencodec: a Scala case class declaration is parsed into a CaseClass     *)
(* (name, type_params, fields) and rendered as a companion object holding  *)
(* circe encoder/decoder definitions.                                      *)
(*                                                                         *)
(* Text is modelled as a sequence of one-character strings, so that the    *)
(* regular expressions, the comma splitting and the output template work   *)
(* on characters as the Rust code does.                                    *)
(***************************************************************************)
EXTENDS Integers, Sequences, FiniteSets, TLC

VARIABLES pc, oneline, input, result, output

vars == <<pc, oneline, input, result, output>>

-----------------------------------------------------------------------------
(* Bounds of the model *)

\* most spaces of indentation put after an inserted newline
MaxIndent == 1
\* most pieces in a generated type-parameter group
MaxTypeParams == 2
\* most pieces in a generated field group / fields of a constructed CaseClass
MaxFields == 2
\* longest field name enumerated character by character
MaxNameLen == 3

-----------------------------------------------------------------------------
(* Characters *)

LowerSeq == <<"a","b","c","d","e","f","g","h","i","j","k","l","m","n","o","p","q","r","s","t","u","v","w","x","y","z">>
UpperSeq == <<"A","B","C","D","E","F","G","H","I","J","K","L","M","N","O","P","Q","R","S","T","U","V","W","X","Y","Z">>
Lower == {LowerSeq[i] : i \in 1..Len(LowerSeq)}
Upper == {UpperSeq[i] : i \in 1..Len(UpperSeq)}
Digit == {"0", "1", "2", "3", "4", "5", "6", "7", "8", "9"}

\* regex \w
WordChar == Lower \cup Upper \cup Digit \cup {"_"}
\* regex \s
SpaceChar == {" ", "\t", "\n", "\r"}

\* char::to_lowercase on the characters of the model
ToLowerChar(c) ==
    IF c \in Upper
    THEN LowerSeq[CHOOSE i \in 1..Len(UpperSeq) : UpperSeq[i] = c]
    ELSE c

-----------------------------------------------------------------------------
(* Strings *)

RECURSIVE Concat(_)
\* the concatenation of a sequence of strings (halved, to keep the
\* evaluation shallow on long texts)
Concat(ss) ==
    IF ss = <<>> THEN <<>>
    ELSE IF Len(ss) = 1 THEN ss[1]
    ELSE LET h == Len(ss) \div 2
         IN  Concat(SubSeq(ss, 1, h)) \o Concat(SubSeq(ss, h + 1, Len(ss)))

RECURSIVE Join(_, _)
\* [String]::join(sep)
Join(ss, sep) ==
    IF ss = <<>> THEN <<>>
    ELSE IF Len(ss) = 1 THEN ss[1]
    ELSE ss[1] \o sep \o Join(Tail(ss), sep)

\* s[from..] starts with pre
StartsWithAt(s, pre, from) ==
    /\ from >= 1
    /\ from + Len(pre) - 1 <= Len(s)
    /\ \A k \in 1..Len(pre) : s[from + k - 1] = pre[k]

\* str::replace(pat, "") for a one-character pattern
RemoveChar(s, c) == SelectSeq(s, LAMBDA x : x # c)

RECURSIVE SplitAt(_, _, _)
\* the pieces of s[from..] between the positions in cuts
SplitAt(s, cuts, from) ==
    LET hits == {i \in cuts : i >= from}
    IN  IF hits = {}
        THEN <<SubSeq(s, from, Len(s))>>
        ELSE LET i == CHOOSE h \in hits : \A h2 \in hits : h <= h2
             IN  <<SubSeq(s, from, i - 1)>> \o SplitAt(s, cuts, i + 1)

\* str::split(",") : every comma separates, empty pieces are kept
Split(s, c) == SplitAt(s, {i \in 1..Len(s) : s[i] = c}, 1)

\* how many brackets or parens are open at position i of s (str::split does
\* not look at this; the properties about nested commas do)
Depth(s, i) ==
    Cardinality({k \in 1..(i - 1) : s[k] \in {"[", "("}})
        - Cardinality({k \in 1..(i - 1) : s[k] \in {"]", ")"}})

\* the commas of s inside a bracket or paren
NestedCommas(s) == {i \in 1..Len(s) : s[i] = "," /\ Depth(s, i) > 0}

\* the end (exclusive) of the longest run of characters of cls starting at from
RunEnd(s, from, cls) ==
    LET stops == {i \in from..Len(s) : s[i] \notin cls}
    IN  IF stops = {} THEN Len(s) + 1
        ELSE CHOOSE i \in stops : \A j \in stops : i <= j

-----------------------------------------------------------------------------
(* The three regular expressions of parse *)

KwCaseClass == <<"c","a","s","e"," ","c","l","a","s","s"," ">>

NoMatch == [matched |-> FALSE, class |-> <<>>, hasTypes |-> FALSE,
            types |-> <<>>, fields |-> <<>>]

\* The match of main_regex that starts at keyword position i, if any.
\* \w+ is followed by "[" or "(", neither a word character, so the class
\* name is the whole run.  "." matches every character but "\n".  Both .+
\* are greedy: an alternative with a later "]" or ")" is preferred.
MainRegexAt(s, i) ==
    LET c0 == i + Len(KwCaseClass)
        ce == RunEnd(s, c0, WordChar)
        Dot(a, b) == b >= a /\ \A k \in a..b : s[k] # "\n"
        \* candidates for the ")" that ends the field group opened at p
        Closers(p) == {fe \in (p + 2)..Len(s) : s[fe] = ")" /\ Dot(p + 1, fe - 1)}
        \* candidates for the "]" that ends the type group opened at ce
        TypeEnds == {te \in (ce + 2)..Len(s) :
                        /\ s[te] = "]"
                        /\ Dot(ce + 1, te - 1)
                        /\ te + 1 <= Len(s)
                        /\ s[te + 1] = "("
                        /\ Closers(te + 1) # {}}
        Max(S) == CHOOSE x \in S : \A y \in S : x >= y
    IN  IF ~StartsWithAt(s, KwCaseClass, i) \/ ce = c0 \/ ce > Len(s)
        THEN NoMatch
        ELSE IF s[ce] = "[" /\ TypeEnds # {}
        THEN LET te == Max(TypeEnds)
                 fe == Max(Closers(te + 1))
             IN  [matched |-> TRUE, class |-> SubSeq(s, c0, ce - 1),
                  hasTypes |-> TRUE, types |-> SubSeq(s, ce + 1, te - 1),
                  fields |-> SubSeq(s, te + 2, fe - 1)]
        ELSE IF s[ce] = "(" /\ Closers(ce) # {}
        THEN LET fe == Max(Closers(ce))
             IN  [matched |-> TRUE, class |-> SubSeq(s, c0, ce - 1),
                  hasTypes |-> FALSE, types |-> <<>>,
                  fields |-> SubSeq(s, ce + 1, fe - 1)]
        ELSE NoMatch

\* main_regex.captures(s): unanchored, so the leftmost position that matches
MainRegex(s) ==
    LET starts == {i \in 1..Len(s) : MainRegexAt(s, i).matched}
    IN  IF starts = {} THEN NoMatch
        ELSE MainRegexAt(s, CHOOSE i \in starts : \A j \in starts : i <= j)

NoCapture == [matched |-> FALSE, text |-> <<>>]

\* variant of field_regex with \w* for \w+ : an empty name would match
FieldRegexStar(f) ==
    LET a == RunEnd(f, 1, SpaceChar)
        b == RunEnd(f, a, WordChar)
    IN  IF b <= Len(f) /\ f[b] = ":"
        THEN [matched |-> TRUE, text |-> SubSeq(f, a, b - 1)]
        ELSE NoCapture

\* field_regex  ^\s*(?P<field>\w+):
FieldRegex(f) ==
    LET a == RunEnd(f, 1, SpaceChar)
        b == RunEnd(f, a, WordChar)
    IN  IF b > a /\ b <= Len(f) /\ f[b] = ":"
        THEN [matched |-> TRUE, text |-> SubSeq(f, a, b - 1)]
        ELSE NoCapture

\* variant of type_regex without the variance marker [+-]?
TypeRegexNoVariance(t) ==
    LET b == RunEnd(t, 1, WordChar)
    IN  IF b > 1
        THEN [matched |-> TRUE, text |-> SubSeq(t, 1, b - 1)]
        ELSE NoCapture

\* type_regex  ^[+-]?(?P<type>\w+)   (no \s* in front, unlike field_regex)
TypeRegex(t) ==
    LET a == IF Len(t) >= 1 /\ t[1] \in {"+", "-"} THEN 2 ELSE 1
        b == RunEnd(t, a, WordChar)
    IN  IF b > a
        THEN [matched |-> TRUE, text |-> SubSeq(t, a, b - 1)]
        ELSE NoCapture

-----------------------------------------------------------------------------
(* parse *)

\* struct CaseClass, and the Result<CaseClass, Box<dyn Error>> around it:
\* ok = TRUE carries the three fields, ok = FALSE carries the error message
Ok(name, type_params, fields) ==
    [ok |-> TRUE, name |-> name, type_params |-> type_params,
     fields |-> fields, msg |-> ""]

Err(msg) ==
    [ok |-> FALSE, name |-> <<>>, type_params |-> <<>>, fields |-> <<>>,
     msg |-> msg]

\* no result yet
Pending == Err("")

ErrMain  == "Could not get capture groups for case class"
ErrType  == "Could not get capture groups for type params"
ErrField == "Could not get capture groups for field name"

\* pieces.map(regex).collect::<Result<Vec<String>, _>>(): the captures in
\* order, or the error of the first piece that does not match
Collect(caps, msg) ==
    IF \E i \in 1..Len(caps) : ~caps[i].matched
    THEN [ok |-> FALSE, names |-> <<>>, msg |-> msg]
    ELSE [ok |-> TRUE, names |-> [i \in 1..Len(caps) |-> caps[i].text],
          msg |-> ""]

\* captures.name("types").map(|t| t.as_str().split(",") ...).unwrap_or(Ok(vec![]))
TypePieces(captures) == Split(captures.types, ",")

type_params(captures) ==
    IF captures.hasTypes
    THEN Collect([i \in 1..Len(TypePieces(captures)) |->
                     TypeRegex(TypePieces(captures)[i])], ErrType)
    ELSE [ok |-> TRUE, names |-> <<>>, msg |-> ""]

\* variant that splits only at commas outside brackets and parens
FieldPiecesTopLevel(captures) ==
    LET s == captures.fields
    IN  SplitAt(s, {i \in 1..Len(s) : s[i] = "," /\ Depth(s, i) = 0}, 1)

\* fields.as_str().split(",")
FieldPieces(captures) == Split(captures.fields, ",")

field_names(captures) ==
    Collect([i \in 1..Len(FieldPieces(captures)) |->
                FieldRegex(FieldPieces(captures)[i])], ErrField)

\* variant with the two ? applied in the other order
BuildCaseClassFieldsFirst(class_name, tps, fns) ==
    IF ~fns.ok THEN Err(fns.msg)
    ELSE IF ~tps.ok THEN Err(tps.msg)
    ELSE Ok(class_name, tps.names, fns.names)

\* Ok(CaseClass { name, type_params: type_params?, fields: field_names? })
\* both lists are computed before either ? is applied; type_params? comes first
BuildCaseClass(class_name, tps, fns) ==
    IF ~tps.ok THEN Err(tps.msg)
    ELSE IF ~fns.ok THEN Err(fns.msg)
    ELSE Ok(class_name, tps.names, fns.names)

parse(text) ==
    LET flat     == RemoveChar(text, "\n")
        captures == MainRegex(flat)
    IN  IF ~captures.matched
        THEN Err(ErrMain)
        ELSE BuildCaseClass(captures.class, type_params(captures),
                            field_names(captures))

-----------------------------------------------------------------------------
(* heck::SnakeCase::to_snake_case, as called on each field name *)

\* out with one more word: boundary "_" unless it is the first, then the
\* word lowercased
EmitWord(out, word) ==
    (IF out.first THEN <<>> ELSE out.text \o <<"_">>)
        \o [k \in 1..Len(word) |-> ToLowerChar(word[k])]

RECURSIVE Transform(_, _, _, _, _)
\* heck's transform loop over one word w: i the character looked at, init the
\* start of the current word, mode the case of the last cased character of
\* the current word, out the text so far
Transform(w, i, init, mode, out) ==
    IF i > Len(w) THEN out.text
    ELSE LET c == w[i] IN
    IF c = "_"
    THEN Transform(w, i + 1, IF init = i THEN init + 1 ELSE init, mode, out)
    ELSE IF i < Len(w)
    THEN LET next == w[i + 1]
             next_mode == IF c \in Lower THEN "Lowercase"
                          ELSE IF c \in Upper THEN "Uppercase"
                          ELSE mode
         IN  IF next = "_" \/ (next_mode = "Lowercase" /\ next \in Upper)
             THEN Transform(w, i + 1, i + 1, "Boundary",
                      [first |-> FALSE,
                       text |-> EmitWord(out, SubSeq(w, init, i))])
             ELSE IF mode = "Uppercase" /\ c \in Upper /\ next \in Lower
             THEN Transform(w, i + 1, i, "Boundary",
                      [first |-> FALSE,
                       text |-> EmitWord(out, SubSeq(w, init, i - 1))])
             ELSE Transform(w, i + 1, init, next_mode, out)
    ELSE EmitWord(out, SubSeq(w, init, i))

\* variant that only lowercases, finding no word boundary
to_lowercase_only(s) == [k \in 1..Len(s) |-> ToLowerChar(s[k])]

\* a \w+ name is a single Unicode word, or none when it has no letter or digit
to_snake_case(s) ==
    Transform(s, 1, 1, "Boundary", [first |-> TRUE, text |-> <<>>])

-----------------------------------------------------------------------------
(* CaseClass::companion_object *)

RECURSIVE ToDecimal(_)
\* format!("{}", n) of a usize
ToDecimal(n) ==
    LET d == <<"0", "1", "2", "3", "4", "5", "6", "7", "8", "9">>
    IN  IF n < 10 THEN <<d[n + 1]>>
        ELSE ToDecimal(n \div 10) \o <<d[(n % 10) + 1]>>

is_generic(c) == c.type_params # <<>>

\* the converted name between double quotes
Label(s) == <<"\"">> \o to_snake_case(s) \o <<"\"">>

transformed_field_names(c) == Join([i \in 1..Len(c.fields) |-> Label(c.fields[i])], <<","," ">>)

\* variant that projects the converted name
ProjectionSnake(s) == <<"a",".">> \o to_snake_case(s)

\* format!("a.{}", s)
Projection(s) == <<"a",".">> \o s

tuple(c) ==
    <<"a"," ","=",">"," ","(">>
        \o Join([i \in 1..Len(c.fields) |-> Projection(c.fields[i])], <<","," ">>)
        \o <<")">>

\* variant that never switches to def
val_or_def_always_val(c) == <<"l","a","z","y"," ","v","a","l">>

val_or_def(c) == IF is_generic(c) THEN <<"d","e","f">> ELSE <<"l","a","z","y"," ","v","a","l">>

function_type_params(c, bound) ==
    IF is_generic(c)
    THEN <<"[">>
           \o Join([i \in 1..Len(c.type_params) |->
                       c.type_params[i] \o <<":"," ">> \o bound], <<","," ">>)
           \o <<"]">>
    ELSE <<>>

just_type_params(c) ==
    IF is_generic(c)
    THEN <<"[">> \o Join(c.type_params, <<","," ">>) \o <<"]">>
    ELSE <<>>

full_classname(c) ==
    IF is_generic(c) THEN c.name \o just_type_params(c) ELSE c.name

\* variant that counts the wrong list
num_of_type_params(c) == ToDecimal(Len(c.type_params))

\* num = self.fields.len()
num(c) == ToDecimal(Len(c.fields))

\* formatdoc!: the template with its common indentation removed
companion_object(c) ==
    Concat(<<
      <<"o","b","j","e","c","t"," ">>, c.name, <<" ","{","\n">>,
      <<" "," ","i","m","p","l","i","c","i","t"," ">>, val_or_def(c), <<" ","e","n","c","o","d","e","r">>,
          function_type_params(c, <<"E","n","c","o","d","e","r">>),
          <<":"," ","E","n","c","o","d","e","r","[">>, full_classname(c), <<"]"," ","="," ","E","n","c","o","d","e","r",".","f","o","r","P","r","o","d","u","c","t">>, num(c),
          <<"(">>, transformed_field_names(c), <<")","(">>, tuple(c), <<")","\n">>,
      <<"\n">>,
      <<" "," ","i","m","p","l","i","c","i","t"," ">>, val_or_def(c), <<" ","d","e","c","o","d","e","r">>,
          function_type_params(c, <<"D","e","c","o","d","e","r">>),
          <<":"," ","D","e","c","o","d","e","r","[">>, full_classname(c), <<"]"," ","="," ","D","e","c","o","d","e","r",".","f","o","r","P","r","o","d","u","c","t">>, num(c),
          <<"(">>, transformed_field_names(c), <<")","(">>, c.name, <<".","a","p","p","l","y">>,
          just_type_params(c), <<")","\n">>,
      <<"}">> >>)

-----------------------------------------------------------------------------
(* Declarations given to parse *)

\* all sequences over S of length lo..hi
SeqsOf(S, lo, hi) == UNION {[1..n -> S] : n \in lo..hi}

\* one type parameter, in the forms Scala allows and two malformed ones
SingleTypePieces ==
    { <<"A">>, <<"+","A">>, <<"-","A">>, <<"A"," ","<",":"," ","B">>, <<"A",":"," ","S","o","m","e","t","h","i","n","g">>, <<"+","A",":"," ","S","o","m","e","t","h","i","n","g">>,
      <<"B">>, <<"<",":"," ","B">>, <<"+">> }

\* the pieces that lists of several type parameters are made of
ListTypePieces == { <<"+","A">>, <<"-","B"," ","<",":"," ","C">>, <<"?">> }

\* one field, well-formed, with a comma inside its type, or malformed
FieldTexts ==
    { <<"a","g","e",":"," ","I","n","t">>, <<"f","a","v","o","r","i","t","e","F","o","o","d",":"," ","F","o","o","d">>, <<"m",":"," ","M","a","p","[","S","t","r","i","n","g",","," ","I","n","t","]">>,
      <<"m",":"," ","M","a","p","[","K",",","v",":"," ","V","]">>, <<"a","g","e"," ","I","n","t">>, <<":"," ","I","n","t">> }

\* the text between commas is written with or without a space after the comma
Separators == { <<",">>, <<","," ">> }

TypeGroups ==
    { <<"[">> \o p \o <<"]">> : p \in SingleTypePieces }
    \cup { <<"[">> \o Join(ps, sep) \o <<"]">> :
             ps \in SeqsOf(ListTypePieces, 2, MaxTypeParams), sep \in Separators }

FieldGroups ==
    { <<"(">> \o Join(fs, sep) \o <<")">> :
        fs \in SeqsOf(FieldTexts, 1, MaxFields), sep \in Separators }

\* texts whose outer shape is broken, or surrounded by other text
OddTexts ==
    { <<"c","l","a","s","s"," ","P","(","a","g","e",":"," ","I","n","t",")">>, <<"c","a","s","e"," ","c","l","a","s","s"," ","P","(","a","g","e",":"," ","I","n","t">>, <<"c","a","s","e"," ","c","l","a","s","s"," ","E","m","p","t","y","(",")">>,
      <<"c","a","s","e"," ","c","l","a","s","s"," ","(","a","g","e",":"," ","I","n","t",")">>, <<"c","a","s","e"," ","c","l","a","s","s"," ","P","[","]","(","a","g","e",":"," ","I","n","t",")">>,
      <<"c","a","s","e"," ","c","l","a","s","s"," ","P","[","?","]","(","a","g","e"," ","I","n","t">>, <<"c","a","s","e"," ","c","l","a","s","s"," ","P"," ","a","g","e",":"," ","I","n","t">>,
      <<"f","i","n","a","l"," ","c","a","s","e"," ","c","l","a","s","s"," ","P","(","a","g","e",":"," ","I","n","t",")"," ","e","x","t","e","n","d","s"," ","Q","(","a","g","e",")">>,
      <<"c","a","s","e"," ","c","l","a","s","s"," ","B","a","d","(","a","g","e"," ","I","n","t",")">>, <<"c","a","s","e"," ","c","l","a","s","s"," ","P","(","m",":"," ","M","a","p","[","S","t","r","i","n","g",","," ","I","n","t","]",")">>,
      <<"c","a","s","e"," ","c","l","a","s","s"," ","G","[","A",","," ","B","]","(","x",":"," ","A",")">>, <<"c","a","s","e"," ","c","l","a","s","s"," ","G","[","+","A",","," ","-","B"," ","<",":"," ","C","]","(","x",":"," ","A",")">> }

OneLineTexts ==
    { <<"c","a","s","e"," ","c","l","a","s","s"," ","G">> \o tg \o fg :
        tg \in TypeGroups, fg \in { <<"(","s","o","m","e","t","h","i","n","g",":"," ","L","i","s","t","[","A","]",")">>, <<"(","a","g","e"," ","I","n","t",")">> } }
    \cup { <<"c","a","s","e"," ","c","l","a","s","s"," ","P">> \o tg \o fg :
             tg \in { <<>>, <<"[","A","]">> }, fg \in FieldGroups }
    \cup OddTexts

\* the characters a line break may be put next to
Openers  == {"[", "(", ","}
Closings == {"]", ")"}

\* t with a newline and k spaces put after each opener in at and before each
\* closing character in at
InsertBreaks(t, at, k) ==
    LET brk == <<"\n">> \o [i \in 1..k |-> " "]
        Piece(c) == IF c \in at /\ c \in Openers THEN <<c>> \o brk
                    ELSE IF c \in at /\ c \in Closings THEN brk \o <<c>>
                    ELSE <<c>>
    IN  Concat([i \in 1..Len(t) |-> Piece(t[i])])

\* break at no place, at every place of one kind, or at every place
Layouts == {{}} \cup {{c} : c \in Openers \cup Closings}
               \cup {Openers \cup Closings}

-----------------------------------------------------------------------------
(* CaseClass values built directly, as the tests of companion_object do *)

NameAlphabet == {"a", "B", "1", "_"}

\* every name of 1..MaxNameLen characters of the alphabet
EnumeratedNames == SeqsOf(NameAlphabet, 1, MaxNameLen)

SampleNames == { <<"a","g","e">>, <<"f","a","v","o","r","i","t","e","F","o","o","d">>, <<"u","s","e","r","_","i","d">>, <<"H","T","T","P","S","e","r","v","e","r">> }

ClassNames == { <<"P","e","r","s","o","n">>, <<"G","e","n","e","r","i","c">> }

TypeParamNames == << <<"A">>, <<"B">>, <<"T","1">>, <<"T","2">> >>

TypeParamLists == {SubSeq(TypeParamNames, 1, n) : n \in 0..MaxTypeParams}

FieldLists ==
    {<<n>> : n \in EnumeratedNames} \cup SeqsOf(SampleNames, 0, MaxFields)

-----------------------------------------------------------------------------
(* The program *)

Init ==
    /\ result = Pending
    /\ output = <<>>
    /\ \/ /\ pc = "input"
          /\ oneline \in OneLineTexts
          /\ \E at \in Layouts, k \in 0..MaxIndent :
                input = InsertBreaks(oneline, at, k)
       \/ /\ pc = "test"
          /\ oneline = <<>>
          /\ input = <<>>

\* let case_class = parse(&line)
Parse ==
    /\ pc = "input"
    /\ result' = parse(input)
    /\ pc' = IF result'.ok THEN "parsed" ELSE "failed"
    /\ UNCHANGED <<oneline, input, output>>

\* CaseClass { name, type_params, fields } written out in a test
Construct ==
    /\ pc = "test"
    /\ \E n \in ClassNames, tps \in TypeParamLists, fs \in FieldLists :
          result' = Ok(n, tps, fs)
    /\ pc' = "built"
    /\ UNCHANGED <<oneline, input, output>>

\* case_class.companion_object()
CompanionObject ==
    /\ pc \in {"parsed", "built"}
    /\ output' = companion_object(result)
    /\ pc' = IF pc = "parsed" THEN "printed" ELSE "rendered"
    /\ UNCHANGED <<oneline, input, result>>

Next == Parse \/ Construct \/ CompanionObject

Spec == Init /\ [][Next]_vars

-----------------------------------------------------------------------------
(* Reading the generated text back *)

\* the first position >= from where sub occurs in s, 0 when there is none
IndexOf(s, sub, from) ==
    LET hits == {i \in from..Len(s) : StartsWithAt(s, sub, i)}
    IN  IF hits = {} THEN 0 ELSE CHOOSE i \in hits : \A j \in hits : i <= j

StartsWith(s, pre) == StartsWithAt(s, pre, 1)

EndsWith(s, suf) == StartsWithAt(s, suf, Len(s) - Len(suf) + 1)

OutputLines == Split(output, "\n")

EncoderLine == OutputLines[2]
DecoderLine == OutputLines[4]

\* The call  forProduct<digits>(<labels>)(<last>)  of a line, taken apart.
\* Labels are quoted words, so the first ")" after the "(" ends them.
Call(line) ==
    LET p == IndexOf(line, <<"f","o","r","P","r","o","d","u","c","t">>, 1)
        q == IndexOf(line, <<"(">>, p)
        r == IndexOf(line, <<")">>, q)
    IN  [digits |-> SubSeq(line, p + Len(<<"f","o","r","P","r","o","d","u","c","t">>), q - 1),
         labels |-> SubSeq(line, q + 1, r - 1),
         open   |-> SubSeq(line, r + 1, r + 1),
         last   |-> SubSeq(line, r + 2, Len(line) - 1),
         close  |-> SubSeq(line, Len(line), Len(line))]

\* the comma-separated entries of a list, the space after each comma dropped
Entries(text) ==
    LET raw == Split(text, ",")
    IN  [i \in 1..Len(raw) |->
            IF i > 1 /\ raw[i] # <<>> /\ raw[i][1] = " " THEN Tail(raw[i])
            ELSE raw[i]]

\* the projections  a.x, a.y  inside  a => (...)
TupleEntries(line) ==
    LET t == Call(line).last
    IN  Entries(SubSeq(t, Len(<<"a"," ","=",">"," ","(">>) + 1, Len(t) - 1))

RECURSIVE DecimalValue(_)
\* the number a digit string stands for
DecimalValue(ds) ==
    IF ds = <<>> THEN 0
    ELSE 10 * DecimalValue(SubSeq(ds, 1, Len(ds) - 1))
           + (CHOOSE v \in 0..9 : ToDecimal(v) = <<ds[Len(ds)]>>)

Quoted(s) == <<"\"">> \o s \o <<"\"">>

AfterParse  == pc \in {"parsed", "failed"}
AfterRender == pc \in {"printed", "rendered"}

\* what main_regex captured in the flattened input
Captured == MainRegex(RemoveChar(input, "\n"))

-----------------------------------------------------------------------------
(* C1: newline tolerance *)

\* C1: whenever parse accepts the one-line text, parse of the same text with
\* a newline and spaces inserted after "[", "(" or "," or before "]" or ")"
\* succeeds with the identical CaseClass.
C1_NewlineTolerance ==
    (AfterParse /\ parse(oneline).ok) => result = parse(oneline)

-----------------------------------------------------------------------------
(* C2: type-parameter list extraction *)

\* the identifier the stated rule takes from a piece: leading whitespace
\* trimmed, one + or - skipped, then the leading word
StatedTypeParam(piece) ==
    LET a == RunEnd(piece, 1, SpaceChar)
        b == IF a <= Len(piece) /\ piece[a] \in {"+", "-"} THEN a + 1 ELSE a
        e == RunEnd(piece, b, WordChar)
    IN  SubSeq(piece, b, e - 1)

\* C2: when the bracket group is present and every comma-separated piece has
\* an identifier after trimming and an optional + or -, parse succeeds (the
\* fields being well-formed) and type_params is those identifiers in order.
C2_TypeParamsExtracted ==
    LET pieces == Split(Captured.types, ",")
    IN  ( /\ AfterParse
          /\ Captured.matched
          /\ Captured.hasTypes
          /\ \A i \in 1..Len(pieces) : StatedTypeParam(pieces[i]) # <<>>
          /\ field_names(Captured).ok )
        => /\ result.ok
           /\ result.type_params =
                 [i \in 1..Len(pieces) |-> StatedTypeParam(pieces[i])]

-----------------------------------------------------------------------------
(* C3: the serialized label *)

\* the stated rule: an underscore before each uppercase letter that directly
\* follows a lowercase letter or a digit, then everything lowercased
RuleSnake(s) ==
    Concat([i \in 1..Len(s) |->
              IF i > 1 /\ s[i] \in Upper /\ s[i - 1] \in Lower \cup Digit
              THEN <<"_", ToLowerChar(s[i])>>
              ELSE <<ToLowerChar(s[i])>>])

LabelEntries == Entries(Call(EncoderLine).labels)

\* C3 as stated: every label is the stated rule applied to the field name.
C3_LabelIsStatedRule ==
    (AfterRender /\ result.fields # <<>>)
        => LabelEntries =
              [i \in 1..Len(result.fields) |-> Quoted(RuleSnake(result.fields[i]))]

\* a name of letters and digits in which every uppercase letter after the
\* first character follows a lowercase letter, directly or across digits
CamelName(s) ==
    /\ \A i \in 1..Len(s) : s[i] \in Lower \cup Upper \cup Digit
    /\ \A i \in 2..Len(s) :
          s[i] \in Upper =>
             \E j \in 1..(i - 1) :
                /\ s[j] \in Lower
                /\ \A k \in (j + 1)..(i - 1) : s[k] \in Digit

\* C3 amended: for every field name of letters and digits in which each
\* uppercase letter after the first character follows a lowercase letter
\* (directly or across digits), the quoted label is the stated rule applied
\* to the name.
C3_LabelIsStatedRuleOnCamelNames ==
    (AfterRender /\ result.fields # <<>>)
        => \A i \in 1..Len(result.fields) :
              CamelName(result.fields[i])
                 => /\ Len(LabelEntries) >= i
                    /\ LabelEntries[i] = Quoted(RuleSnake(result.fields[i]))

\* a camelCase field has been rendered with an underscore put in its label
C3_Witness ==
    /\ pc = "rendered"
    /\ \E i \in 1..Len(result.fields) :
          /\ CamelName(result.fields[i])
          /\ \E k \in 1..Len(result.fields[i]) : result.fields[i][k] \in Upper
          /\ \E k \in 1..Len(LabelEntries[i]) : LabelEntries[i][k] = "_"

-----------------------------------------------------------------------------
(* C4: field count *)

\* C4: with N >= 1 fields, both lines say forProductN, the label list has N
\* entries on both lines, the tuple has N entries, and the i-th label and the
\* i-th projection come from fields[i].
C4_FieldCount ==
    (AfterRender /\ Len(result.fields) >= 1)
        => LET N   == Len(result.fields)
               enc == Call(EncoderLine)
               dec == Call(DecoderLine)
           IN  /\ Len(OutputLines) = 5
               /\ enc.digits # <<>> /\ DecimalValue(enc.digits) = N
               /\ dec.digits # <<>> /\ DecimalValue(dec.digits) = N
               /\ Len(Split(enc.labels, ",")) = N
               /\ Len(Split(dec.labels, ",")) = N
               /\ dec.labels = enc.labels
               /\ Len(Split(enc.last, ",")) = N
               /\ \A i \in 1..N :
                     /\ Entries(enc.labels)[i] = Label(result.fields[i])
                     /\ StartsWith(TupleEntries(EncoderLine)[i], <<"a",".">>)
                     /\ Len(TupleEntries(EncoderLine)[i])
                           = Len(result.fields[i]) + 2

\* the same field twice has been rendered
C4_Witness ==
    /\ pc = "rendered"
    /\ Len(result.fields) = 2
    /\ result.fields[1] = result.fields[2]
    /\ Call(EncoderLine).digits = <<"2">>

-----------------------------------------------------------------------------
(* C5: generic branch *)

\* [T1<suffix>, ..., Tk<suffix>]
Bracketed(tps, suffix) ==
    <<"[">> \o Join([i \in 1..Len(tps) |-> tps[i] \o suffix], <<","," ">>) \o <<"]">>

\* lazy val for both, no bracketed list, bare Name.apply
EagerShape(c) ==
    /\ StartsWith(EncoderLine,
          <<" "," ","i","m","p","l","i","c","i","t"," ","l","a","z","y"," ","v","a","l"," ","e","n","c","o","d","e","r",":"," ","E","n","c","o","d","e","r","[">> \o c.name \o <<"]"," ","="," ","E","n","c","o","d","e","r",".">>)
    /\ StartsWith(DecoderLine,
          <<" "," ","i","m","p","l","i","c","i","t"," ","l","a","z","y"," ","v","a","l"," ","d","e","c","o","d","e","r",":"," ","D","e","c","o","d","e","r","[">> \o c.name \o <<"]"," ","="," ","D","e","c","o","d","e","r",".">>)
    /\ EndsWith(DecoderLine, <<")","(">> \o c.name \o <<".","a","p","p","l","y",")">>)

\* def for both, bounds Encoder / Decoder, Name[T1, ..., Tk], Name.apply[...]
ParameterizedShape(c) ==
    /\ StartsWith(EncoderLine,
          <<" "," ","i","m","p","l","i","c","i","t"," ","d","e","f"," ","e","n","c","o","d","e","r">> \o Bracketed(c.type_params, <<":"," ","E","n","c","o","d","e","r">>)
             \o <<":"," ","E","n","c","o","d","e","r","[">> \o c.name \o Bracketed(c.type_params, <<>>)
             \o <<"]"," ","="," ","E","n","c","o","d","e","r",".">>)
    /\ StartsWith(DecoderLine,
          <<" "," ","i","m","p","l","i","c","i","t"," ","d","e","f"," ","d","e","c","o","d","e","r">> \o Bracketed(c.type_params, <<":"," ","D","e","c","o","d","e","r">>)
             \o <<":"," ","D","e","c","o","d","e","r","[">> \o c.name \o Bracketed(c.type_params, <<>>)
             \o <<"]"," ","="," ","D","e","c","o","d","e","r",".">>)
    /\ EndsWith(DecoderLine,
          <<")","(">> \o c.name \o <<".","a","p","p","l","y">> \o Bracketed(c.type_params, <<>>) \o <<")">>)

\* C5: type_params is empty exactly when the output has the eager shape, and
\* non-empty exactly when it has the parameterized shape.
C5_GenericBranch ==
    AfterRender
        => /\ (result.type_params = <<>>) <=> EagerShape(result)
           /\ (result.type_params # <<>>) <=> ParameterizedShape(result)

\* a class with two type parameters has been rendered
C5_Witness ==
    /\ pc = "rendered"
    /\ Len(result.type_params) = 2
    /\ ParameterizedShape(result)

-----------------------------------------------------------------------------
(* C6: variance and bound stripping *)

SixForms ==
    { <<"A">>, <<"+","A">>, <<"-","A">>, <<"A"," ","<",":"," ","B">>, <<"A",":"," ","S","o","m","e","t","h","i","n","g">>, <<"+","A",":"," ","S","o","m","e","t","h","i","n","g">> }

SixFormTexts ==
    { <<"c","a","s","e"," ","c","l","a","s","s"," ","G","[">> \o f \o <<"]","(","s","o","m","e","t","h","i","n","g",":"," ","L","i","s","t","[","A","]",")">> : f \in SixForms }

\* C6: each of the six ways to write the single type parameter A parses to
\* the CaseClass of the plain form: G, [A], [something].
C6_VarianceAndBoundStripped ==
    (AfterParse /\ input \in SixFormTexts)
        => result = Ok(<<"G">>, << <<"A">> >>, << <<"s","o","m","e","t","h","i","n","g">> >>)

\* the form with both a variance marker and a bound has been parsed
C6_Witness ==
    /\ pc = "parsed"
    /\ input = <<"c","a","s","e"," ","c","l","a","s","s"," ","G","[","+","A",":"," ","S","o","m","e","t","h","i","n","g","]","(","s","o","m","e","t","h","i","n","g",":"," ","L","i","s","t","[","A","]",")">>
    /\ result.type_params = << <<"A">> >>

-----------------------------------------------------------------------------
(* C7: projections use the original names *)

\* C7: the tuple is  a => (a.f1, ..., a.fN)  with every f spelled as stored,
\* in field order.
C7_ProjectionUsesOriginalName ==
    (AfterRender /\ result.fields # <<>>)
        => /\ StartsWith(Call(EncoderLine).last, <<"a"," ","=",">"," ","(">>)
           /\ EndsWith(Call(EncoderLine).last, <<")">>)
           /\ TupleEntries(EncoderLine) =
                 [i \in 1..Len(result.fields) |-> <<"a",".">> \o result.fields[i]]

\* a field whose label differs from its name has been rendered
C7_Witness ==
    /\ pc = "rendered"
    /\ \E i \in 1..Len(result.fields) :
          /\ LabelEntries[i] # Quoted(result.fields[i])
          /\ TupleEntries(EncoderLine)[i] = <<"a",".">> \o result.fields[i]

-----------------------------------------------------------------------------
(* C8: first failure wins *)

\* a type-parameter piece with a leading identifier, after an optional + or -
TypePieceOk(p) ==
    \/ Len(p) >= 1 /\ p[1] \in WordChar
    \/ Len(p) >= 2 /\ p[1] \in {"+", "-"} /\ p[2] \in WordChar

\* a field piece with the prefix  identifier:  after leading whitespace
FieldPieceOk(p) ==
    \E a \in 1..Len(p), b \in 1..Len(p) :
       /\ a <= b /\ b < Len(p)
       /\ \A k \in 1..(a - 1) : p[k] \in SpaceChar
       /\ \A k \in a..b : p[k] \in WordChar
       /\ p[b + 1] = ":"

TypeStageFails ==
    /\ Captured.hasTypes
    /\ \E p \in {Split(Captured.types, ",")[i] :
                    i \in 1..Len(Split(Captured.types, ","))} : ~TypePieceOk(p)

FieldStageFails ==
    \E p \in {Split(Captured.fields, ",")[i] :
                 i \in 1..Len(Split(Captured.fields, ","))} : ~FieldPieceOk(p)

\* C8: parse returns the error of the earliest failing stage (outer shape,
\* type parameters, fields), a CaseClass only when no stage fails, and the
\* three errors differ.
C8_FirstFailureWins ==
    AfterParse
        => /\ IF ~Captured.matched THEN result = Err(ErrMain)
              ELSE IF TypeStageFails THEN result = Err(ErrType)
              ELSE IF FieldStageFails THEN result = Err(ErrField)
              ELSE result.ok
           /\ Cardinality({ErrMain, ErrType, ErrField}) = 3
           /\ (RemoveChar(input, "\n") = <<"c","a","s","e"," ","c","l","a","s","s"," ","B","a","d","(","a","g","e"," ","I","n","t",")">>
                 => result = Err(ErrField))

\* a text with a bad type parameter and a bad field fails on the type parameter
C8_Witness ==
    /\ pc = "failed"
    /\ Captured.matched
    /\ TypeStageFails
    /\ FieldStageFails
    /\ result.msg = ErrType

-----------------------------------------------------------------------------
(* C9: fields are never empty *)

\* C9: a CaseClass returned by parse has at least one field, every field a
\* non-empty word, and  case class Empty()  fails.
C9_FieldsNonEmpty ==
    /\ pc \in {"parsed", "printed"}
          => /\ Len(result.fields) >= 1
             /\ \A i \in 1..Len(result.fields) :
                   /\ result.fields[i] # <<>>
                   /\ \A k \in 1..Len(result.fields[i]) :
                         result.fields[i][k] \in WordChar
    /\ (pc # "input" /\ RemoveChar(input, "\n") = <<"c","a","s","e"," ","c","l","a","s","s"," ","E","m","p","t","y","(",")">>)
          => pc = "failed"

\* the empty field group has been rejected
C9_Witness ==
    /\ pc = "failed"
    /\ input = <<"c","a","s","e"," ","c","l","a","s","s"," ","E","m","p","t","y","(",")">>
    /\ ~result.ok

-----------------------------------------------------------------------------
(* C10: commas inside a field's type *)

\* the outer shape and the type parameters are fine and some comma of the
\* field group lies inside a bracket or paren
NestedCommaCase ==
    /\ AfterParse
    /\ Captured.matched
    /\ ~TypeStageFails
    /\ NestedCommas(Captured.fields) # {}

\* C10 as stated: with a comma inside a field's type, and every declared
\* field well-formed, parse reports no failure.
C10_SilentMisSplit ==
    ( /\ NestedCommaCase
      /\ \A i \in 1..Len(FieldPiecesTopLevel(Captured)) :
            FieldPieceOk(FieldPiecesTopLevel(Captured)[i]) )
        => result.ok

\* C10 amended: the field text is split at every comma, also inside brackets;
\* parse succeeds exactly when every resulting piece starts with identifier
\* and colon, then returning one field per piece, and otherwise fails with
\* the field error, as for  case class P(m: Map[String, Int]).
C10_MisSplitPiecesAreChecked ==
    NestedCommaCase
        => LET s      == Captured.fields
               commas == {i \in 1..Len(s) : s[i] = ","}
               pieces == Split(s, ",")
           IN  /\ result.ok <=> \A i \in 1..Len(pieces) : FieldPieceOk(pieces[i])
               /\ result.ok => Len(result.fields) = Cardinality(commas) + 1
               /\ ~result.ok => result.msg = ErrField
               /\ s = <<"m",":"," ","M","a","p","[","S","t","r","i","n","g",","," ","I","n","t","]">> => result = Err(ErrField)

\* the two-argument generic type has been rejected with the field error
C10_Witness ==
    /\ pc = "failed"
    /\ input = <<"c","a","s","e"," ","c","l","a","s","s"," ","P","(","m",":"," ","M","a","p","[","S","t","r","i","n","g",","," ","I","n","t","]",")">>
    /\ result.msg = ErrField

=============================================================================
